---- MODULE Spec2Model ----
(***************************************************************************)
(* Model of the batch composition and dispatch engine of                   *)
(* sc2k-city-viewer:                                                       *)
(*   - generate_asset_descriptions.py : the description run (SpecDesc)     *)
(*   - generate_images.py             : the image run, asynchronous mode   *)
(*     (SpecAsync), compositional grid mode (SpecGrid) and the job runner  *)
(*     of one submit/poll/fetch job (SpecJob).                             *)
(***************************************************************************)
EXTENDS Integers, Sequences, FiniteSets, TLC

\* ------------------------------------------------------------------ bounds
\* number of image files found by the scanner of a description run
NDesc == 3
\* number of runs of the description command (first run + restarts)
MaxRuns == 2
\* number of distinct content hashes a source file can take
MaxHash == 2
\* number of times a source file is edited between runs
MaxEdits == 1
\* largest --grid-size given to a description run
MaxGridArg == 2
\* a --max-single-dim below the default, between two of the image sizes
LowThreshold == 48
\* largest --grid-size for which one sprite sheet is built
MaxSheetGrid == 11

\* number of asset descriptions found by an image run
NImg == 3
\* largest --concurrent given to an image run
MaxConcurrent == 2
\* number of image runs (first run + restarts)
MaxImgRuns == 2
\* seconds one slow iteration of a poll loop takes (poll latency + sleep)
SlowIter == 60
\* largest number of rows and of columns given with --grid-size to an image run
MaxGridDim == 2
\* per-cell footprint (pixels) of a composite that is not of the requested size
Footprint == 70

\* ------------------------------------------------------- program constants
GRID_SIZE == 10
MAX_SINGLE_IMAGE_DIM == 150
FAL_POLL_INTERVAL == 1
FAL_MAX_POLL_TIME == 120

\* ------------------------------------------------------------------ helpers
Min(a, b) == IF a < b THEN a ELSE b

Max(a, b) == IF a < b THEN b ELSE a

Range(s) == {s[k] : k \in 1..Len(s)}

\* ceil(n / c) for c > 0
CeilDiv(n, c) == (n + c - 1) \div c

\* =========================================================================
\*  generate_asset_descriptions.py
\* =========================================================================
DItems == 1..NDesc

\* (width, height) of the image files the scanner can find
DSizes == <<(<<32, 32>>), (<<64, 64>>), (<<200, 64>>)>>

\* the directories scanned: every file 32x32, or the three sizes in turn
DimProfiles ==
  {[i \in DItems |-> DSizes[1]]}
    \cup {[i \in DItems |-> DSizes[((i + k) % 3) + 1]] : k \in 0..2}

Formats == {"json", "md"}

\* the values given with --max-single-dim
ThresholdArgs == {MAX_SINGLE_IMAGE_DIM, LowThreshold}

\* valid and invalid values of --grid-size and of --max-single-dim
AnyGridArgs == {-1, 0, 1}

AnyThresholdArgs == {MAX_SINGLE_IMAGE_DIM, 0}

NoRecord == 0

VARIABLES
  dpc,          \* position of main() of the description run
  runs,         \* number of runs started
  edits,        \* number of edits of source files so far
  dims,         \* dims[i] = <<width, height>> of image file i
  hash,         \* hash[i] = md5 of the current bytes of image file i
  outFiles,     \* outFiles[<<i, fmt>>] \in {"none", "real", "unknown"}: description file
  progressFile, \* .asset_descriptions_progress.json: [ok |-> parses as JSON, recs |-> item -> hash | NoRecord]
  progress,     \* the in-memory progress dict of the run
  force,        \* args.force
  fmt,          \* args.format
  grid_size,    \* args.grid_size
  max_single_dim, \* args.max_single_dim
  api_key,      \* args.api_key is set (option or OPENROUTER_API_KEY)
  args_ok,      \* parse_args accepted the command line
  small_images, \* categorize_images()[0]
  large_images, \* categorize_images()[1]
  bi,           \* loop variable i of the batch loop (1-based start of the batch)
  batch,        \* the batch handed to process_batch
  need_process, \* need_process of process_batch
  descriptions, \* descriptions[i] \in {"none", "real", "unknown"} returned for the batch
  wj,           \* position of the write loop of process_batch in need_process
  saved,        \* saved of process_batch
  li,           \* position of the loop over large_images
  total_saved,  \* main(): total_saved
  api_calls,    \* main(): api_calls
  errors,       \* main(): errors
  \* ---- observation (history) variables
  remoteCalls,  \* requests actually sent to the remote service in this run
  skipLog,      \* facts recorded when the cache check skipped an item
  everWritten,  \* items whose description file has been written by some run
  sentBatch,    \* the last sprite sheet sent: [items, positions, g]
  nBatches,     \* iterations of the batch loop in this run
  failedItems,  \* items of this run whose unit's remote call failed
  startOut,     \* the description files as the run found them
  startRecs     \* the progress dict as load_progress returned it

descVars == <<dpc, runs, edits, dims, hash, outFiles, progressFile, progress, force, fmt,
              grid_size, small_images, large_images, bi, batch, need_process,
              descriptions, wj, saved, li, total_saved, api_calls, errors,
              remoteCalls, skipLog, everWritten, sentBatch, nBatches, failedItems,
              max_single_dim, startOut, startRecs, api_key, args_ok>>

\* ---- generate_images.py
VARIABLES
  ipc,            \* position of main() of the image run
  iruns,          \* number of image runs started
  runner,         \* "async" (generate_image_async) or "sync" (generate_image)
  fineTime,       \* TRUE: poll iterations may take FAL_POLL_INTERVAL seconds
  imgOut,         \* imgOut[i]: the output image of description i exists
  iforce,         \* args.force
  max_concurrent, \* batch_config.max_concurrent
  to_process,     \* main(): to_process
  skipped,        \* main(): skipped
  fate,           \* fate[i] = "good": every remote call of unit i succeeds in time
  tpc,            \* position of the task of unit i
  sem,            \* value of the semaphore
  elapsed,        \* time.time() - poll_start of the job of unit i
  polls,          \* status polls issued for the job of unit i
  fetches,        \* result fetches issued for the job of unit i
  lastStatus,     \* "status" of the last poll answered with HTTP 200
  outcome,        \* what generate_image(_async) returned for unit i
  completed,      \* completed[0]
  saved_count,    \* saved_count[0]
  errors_count,   \* errors_count[0]
  submits,        \* submissions sent for unit i in this run
  pendingRemote,  \* jobs of unit i the service accepted and no client resolved
  \* ---- compositional mode
  idims,          \* idims[i] = <<width, height>> of description i (image_sizes.json)
  img_grid,       \* main(): grid_size = <<rows, cols>>
  grid_position,  \* desc.grid_position of description i
  gi,             \* generate_compositional_grid: loop variable i (1-based batch start)
  gbatch,         \* generate_compositional_grid: batch
  promptCell,     \* the cell named for description i in the combined prompt
  gpath,          \* how the remote exchange of the last batch ended
  composite,      \* the image returned for the last batch: [decodable, width, height]
  cell_req,       \* <<cell_width, cell_height>> handed to split_grid_image
  grid_images,    \* what split_grid_image returned for the last batch
  results,        \* generate_compositional_grid: results
  ri,             \* position of main()'s loop over results
  isaved,         \* main(): saved
  ierrors,        \* main(): errors
  outCell         \* the cell <<row, col>> this run saved as the output of description i

gridVars == <<idims, img_grid, grid_position, gi, gbatch, promptCell, gpath,
              composite, cell_req, grid_images, results, ri, isaved, ierrors, outCell>>

imgVars == <<ipc, iruns, runner, fineTime, imgOut, iforce, max_concurrent,
             to_process, skipped, fate, tpc, sem, elapsed, polls, fetches,
             lastStatus, outcome, completed, saved_count, errors_count, submits,
             pendingRemote, gridVars>>

\* ---- generate_asset_descriptions.py: one sprite-sheet request on its own
VARIABLES
  spc,            \* "off", "batch" (cut by main), "sheet" (built), "described"
  sh_g,           \* args.grid_size
  sh_n,           \* len(need_process) of the batch
  sh_positions,   \* positions returned by create_sprite_sheet
  sh_described    \* number of items generate_grid_description returns an entry for

sheetVars == <<spc, sh_g, sh_n, sh_positions, sh_described>>

vars == <<descVars, imgVars, sheetVars>>

\* get_description_path(...).exists()
DescExists(out, i, f) == out[<<i, f>>] # "none"

\* categorize_images: the size test of one image
IsSmall(i) == dims[i][1] <= MAX_SINGLE_IMAGE_DIM /\ dims[i][2] <= MAX_SINGLE_IMAGE_DIM

IsLarge(i) == ~IsSmall(i)

\* get_image_files returns the sorted paths: items in increasing order
AllImages == [k \in 1..NDesc |-> k]

\* a cache test that does not look at force
NeedsWork_NoForce(prog, out, i, f, frc) ==
  IF prog[i] # NoRecord /\ prog[i] = hash[i] THEN FALSE
  ELSE IF DescExists(out, i, f) THEN FALSE
  ELSE TRUE

\* process_batch / process_large_image: the cache test of one item.
\* TRUE when the item is NOT skipped.
NeedsWork(prog, out, i, f, frc) ==
  IF frc THEN TRUE
  ELSE IF prog[i] # NoRecord /\ prog[i] = hash[i] THEN FALSE
  ELSE IF DescExists(out, i, f) THEN FALSE
  ELSE TRUE

\* need_process of process_batch: the items of the batch that are not skipped, in order
NeedProcess(b, prog, out, f, frc) ==
  SelectSeq(b, LAMBDA i : NeedsWork(prog, out, i, f, frc))

\* create_sprite_sheet: count and the 1-indexed (row, col) positions
SheetCount(n) == Min(n, GRID_SIZE * GRID_SIZE)

SheetPositions(n) ==
  [k \in 1..SheetCount(n) |->
     <<((k - 1) \div GRID_SIZE) + 1, ((k - 1) % GRID_SIZE) + 1>>]

\* the replies of the remote service to one sprite sheet: an exception (also a reply
\* that is not the expected JSON), or the set of (row, col) entries of "tiles": one
\* for every cell, or the entry of the first cell missing
GridReplies(pos) ==
  {[ok |-> FALSE, tiles |-> {}]}
    \cup {[ok |-> TRUE, tiles |-> T] :
            T \in {{pos[k] : k \in 1..Len(pos)}, {pos[k] : k \in 2..Len(pos)}}}

\* generate_grid_description: the dict returned for the images of one request
GridDescriptions(images, reply) ==
  LET pos == SheetPositions(Len(images))
  IN  [i \in DItems |->
        IF ~reply.ok THEN "none"
        ELSE IF \E k \in 1..Len(pos) : images[k] = i
             THEN LET k == CHOOSE k \in 1..Len(pos) : images[k] = i
                  IN  IF pos[k] \in reply.tiles THEN "real" ELSE "unknown"
             ELSE "none"]

\* a write of the description file that never reaches the disk
WriteDescription_Lost(out, i, f, d) == out

\* process_batch / process_large_image: open(desc_path, "w") and the dump
WriteDescription(out, i, f, d) == [out EXCEPT ![<<i, f>>] = d]

\* the entry written to progress for item i
ProgressRecord(i) == hash[i]

EmptyProgress == [i \in DItems |-> NoRecord]

\* save_progress: the content of the file after a completed write
SavedProgress(prog) == [ok |-> TRUE, recs |-> prog]

\* the file when the process dies inside save_progress: open(.., "w") has truncated
\* it and json.dump has not finished
TornProgress == [ok |-> FALSE, recs |-> EmptyProgress]

\* no sprite sheet is looked at on its own
SheetIdle ==
  /\ spc = "off"
  /\ sh_g = 1
  /\ sh_n = 0
  /\ sh_positions = <<>>
  /\ sh_described = 0

DInit ==
  /\ SheetIdle
  /\ dpc = "idle"
  /\ max_single_dim = MAX_SINGLE_IMAGE_DIM
  /\ api_key = TRUE
  /\ args_ok = TRUE
  /\ startOut = [p \in DItems \X Formats |-> "none"]
  /\ startRecs = EmptyProgress
  /\ runs = 0
  /\ edits = 0
  /\ dims \in DimProfiles
  /\ hash = [i \in DItems |-> 1]
  /\ outFiles = [p \in DItems \X Formats |-> "none"]
  /\ progressFile = SavedProgress(EmptyProgress)
  /\ progress = EmptyProgress
  /\ force = FALSE
  /\ fmt = "json"
  /\ grid_size = 1
  /\ small_images = <<>>
  /\ large_images = <<>>
  /\ bi = 1
  /\ batch = <<>>
  /\ need_process = <<>>
  /\ descriptions = [i \in DItems |-> "none"]
  /\ wj = 1
  /\ saved = 0
  /\ li = 1
  /\ total_saved = 0
  /\ api_calls = 0
  /\ errors = 0
  /\ remoteCalls = 0
  /\ skipLog = {}
  /\ everWritten = {}
  /\ sentBatch = [items |-> <<>>, positions |-> <<>>, g |-> 1]
  /\ nBatches = 0
  /\ failedItems = {}

\* the failure marker (None) in the list split_grid_image returns
NoneCell ==
  [ok |-> FALSE, row |-> -1, col |-> -1, left |-> 0, upper |-> 0,
   srcw |-> 0, srch |-> 0, w |-> 0, h |-> 0, scaled |-> FALSE]

NoComposite == [decodable |-> FALSE, width |-> 0, height |-> 0]

NoCell == <<-1, -1>>

\* the variables of the compositional mode while no such run is on
GIdle ==
  /\ idims = [i \in 1..NImg |-> <<64, 64>>]
  /\ img_grid = <<1, 1>>
  /\ grid_position = [i \in 1..NImg |-> NoCell]
  /\ gi = 1
  /\ gbatch = <<>>
  /\ promptCell = [i \in 1..NImg |-> NoCell]
  /\ gpath = "none"
  /\ composite = NoComposite
  /\ cell_req = <<0, 0>>
  /\ grid_images = <<>>
  /\ results = <<>>
  /\ ri = 1
  /\ isaved = 0
  /\ ierrors = 0
  /\ outCell = [i \in 1..NImg |-> NoCell]

\* the image run does not take part in a description run
IIdle ==
  /\ GIdle
  /\ ipc = "idle"
  /\ iruns = 0
  /\ runner = "async"
  /\ fineTime = FALSE
  /\ imgOut = [i \in 1..NImg |-> FALSE]
  /\ iforce = FALSE
  /\ max_concurrent = 1
  /\ to_process = <<>>
  /\ skipped = 0
  /\ fate = [i \in 1..NImg |-> "good"]
  /\ tpc = [i \in 1..NImg |-> "off"]
  /\ sem = 0
  /\ elapsed = [i \in 1..NImg |-> 0]
  /\ polls = [i \in 1..NImg |-> 0]
  /\ fetches = [i \in 1..NImg |-> 0]
  /\ lastStatus = [i \in 1..NImg |-> "none"]
  /\ outcome = [i \in 1..NImg |-> "none"]
  /\ completed = 0
  /\ saved_count = 0
  /\ errors_count = 0
  /\ submits = [i \in 1..NImg |-> 0]
  /\ pendingRemote = [i \in 1..NImg |-> 0]


\* ---- main(): argument parsing, scan, categorize_images, load_progress
DRunning == dpc \in {"batch_loop", "b_call", "b_write", "large_loop", "l_call",
                     "l_write", "l_save"}

\* the memory of a process that is not running
NoProcess ==
  /\ progress' = EmptyProgress
  /\ max_single_dim' = MAX_SINGLE_IMAGE_DIM
  /\ api_key' = TRUE
  /\ args_ok' = TRUE
  /\ startOut' = [p \in DItems \X Formats |-> "none"]
  /\ startRecs' = EmptyProgress
  /\ force' = FALSE
  /\ fmt' = "json"
  /\ grid_size' = 1
  /\ small_images' = <<>>
  /\ large_images' = <<>>
  /\ bi' = 1
  /\ batch' = <<>>
  /\ need_process' = <<>>
  /\ descriptions' = [i \in DItems |-> "none"]
  /\ wj' = 1
  /\ saved' = 0
  /\ li' = 1
  /\ total_saved' = 0
  /\ api_calls' = 0
  /\ errors' = 0
  /\ remoteCalls' = 0
  /\ skipLog' = {}
  /\ sentBatch' = [items |-> <<>>, positions |-> <<>>, g |-> 1]
  /\ nBatches' = 0
  /\ failedItems' = {}

\* what the cache check saw when it skipped item i
SkipFact(i) ==
  [item |-> i,
   matched |-> (progress[i] # NoRecord /\ progress[i] = hash[i]),
   output |-> DescExists(outFiles, i, fmt)]

\* the slice small_images[i : i + grid_size * grid_size] of main()
BatchSlice(s, start, g) == SubSeq(s, start, Min(start + g * g - 1, Len(s)))

\* main() from parse_args to the head of the batch loop, for a command line
\* whose --grid-size is drawn from G and --max-single-dim from T, with the API
\* key present as K and values that parse as integers as P say
DStart(G, T, K, P) ==
  /\ runs < MaxRuns
  /\ runs' = runs + 1
  /\ \E f \in BOOLEAN, o \in Formats, g \in G, m \in T, k \in K, p \in P :
       /\ force' = f
       /\ fmt' = o
       /\ grid_size' = g
       /\ max_single_dim' = m
       /\ api_key' = k
       /\ args_ok' = p
       /\ IF ~p \/ ~k
            THEN \* parser.error, or sys.exit(1) for the missing key
                 /\ small_images' = <<>>
                 /\ large_images' = <<>>
                 /\ progress' = EmptyProgress
                 /\ dpc' = "aborted"
            ELSE /\ small_images' = SelectSeq(AllImages, IsSmall)
                 /\ large_images' = SelectSeq(AllImages, IsLarge)
                 /\ IF ~progressFile.ok
                      THEN \* json.load raises; nothing catches it
                           /\ progress' = EmptyProgress
                           /\ dpc' = "aborted"
                      ELSE /\ progress' = progressFile.recs
                           \* range(0, len(small_images), 0) raises ValueError
                           /\ dpc' = IF g * g = 0 THEN "aborted" ELSE "batch_loop"
  /\ startOut' = outFiles
  /\ startRecs' = IF progressFile.ok THEN progressFile.recs ELSE EmptyProgress
  /\ bi' = 1
  /\ li' = 1
  /\ wj' = 1
  /\ saved' = 0
  /\ batch' = <<>>
  /\ need_process' = <<>>
  /\ descriptions' = [i \in DItems |-> "none"]
  /\ total_saved' = 0
  /\ api_calls' = 0
  /\ errors' = 0
  /\ remoteCalls' = 0
  /\ skipLog' = {}
  /\ nBatches' = 0
  /\ failedItems' = {}
  /\ sentBatch' = [items |-> <<>>, positions |-> <<>>, g |-> 1]
  /\ UNCHANGED <<edits, dims, hash, outFiles, progressFile, everWritten>>
  /\ UNCHANGED imgVars
  /\ UNCHANGED sheetVars

\* a run started with a valid command line and the API key
DStartRun ==
  /\ dpc = "idle"
  /\ DStart(1..MaxGridArg, ThresholdArgs, {TRUE}, {TRUE})

\* a run started with any command line: --grid-size also zero or negative,
\* --max-single-dim also zero, values that are no integers, no API key
DStartAnyArgs ==
  /\ dpc = "idle"
  /\ DStart(AnyGridArgs, AnyThresholdArgs, BOOLEAN, BOOLEAN)

\* between two runs a source file is edited: its md5 changes
DEditSource ==
  /\ dpc = "idle"
  /\ 0 < runs /\ runs < MaxRuns
  /\ edits < MaxEdits
  /\ edits' = edits + 1
  /\ \E i \in DItems : hash' = [hash EXCEPT ![i] = (hash[i] % MaxHash) + 1]
  /\ UNCHANGED <<dpc, runs, dims, outFiles, progressFile, progress, force, fmt,
                 grid_size, small_images, large_images, bi, batch, need_process,
                 descriptions, wj, saved, li, total_saved, api_calls, errors,
                 remoteCalls, skipLog, everWritten, sentBatch, nBatches, failedItems>>
  /\ UNCHANGED <<max_single_dim, startOut, startRecs, api_key, args_ok>>
  /\ UNCHANGED imgVars
  /\ UNCHANGED sheetVars

\* ---- one iteration of the batch loop of main() up to the remote call of
\*      process_batch: the slice, need_process and the early return
DBatchBegin ==
  /\ dpc = "batch_loop"
  /\ bi <= Len(small_images)
  /\ LET b  == BatchSlice(small_images, bi, grid_size)
         np == NeedProcess(b, progress, outFiles, fmt, force)
     IN  /\ batch' = b
         /\ need_process' = np
         /\ skipLog' = skipLog \cup {SkipFact(i) : i \in Range(b) \ Range(np)}
         /\ nBatches' = nBatches + 1
         /\ IF np = <<>>
              THEN \* process_batch returns 0; main counts the call and goes on
                   /\ api_calls' = api_calls + 1
                   /\ bi' = bi + grid_size * grid_size
                   /\ dpc' = "batch_loop"
              ELSE /\ dpc' = "b_call"
                   /\ UNCHANGED <<api_calls, bi>>
  /\ UNCHANGED <<runs, edits, dims, hash, outFiles, progressFile, progress, force, fmt,
                 grid_size, small_images, large_images, descriptions, wj, saved, li,
                 total_saved, errors, remoteCalls, everWritten, sentBatch, failedItems>>
  /\ UNCHANGED <<max_single_dim, startOut, startRecs, api_key, args_ok>>
  /\ UNCHANGED imgVars
  /\ UNCHANGED sheetVars

\* generate_grid_description(client, need_process): one remote request
DBatchCall ==
  /\ dpc = "b_call"
  /\ \E reply \in GridReplies(SheetPositions(Len(need_process))) :
       /\ descriptions' = GridDescriptions(need_process, reply)
       /\ failedItems' = IF reply.ok THEN failedItems
                         ELSE failedItems \cup Range(need_process)
  /\ sentBatch' = [items |-> need_process,
                   positions |-> SheetPositions(Len(need_process)),
                   g |-> grid_size]
  /\ remoteCalls' = remoteCalls + 1
  /\ wj' = 1
  /\ saved' = 0
  /\ dpc' = "b_write"
  /\ UNCHANGED <<runs, edits, dims, hash, outFiles, progressFile, progress, force, fmt,
                 grid_size, small_images, large_images, bi, batch, need_process, li,
                 total_saved, api_calls, errors, skipLog, everWritten, nBatches>>
  /\ UNCHANGED <<max_single_dim, startOut, startRecs, api_key, args_ok>>
  /\ UNCHANGED imgVars
  /\ UNCHANGED sheetVars

\* one iteration of the write loop of process_batch
DBatchWrite ==
  /\ dpc = "b_write"
  /\ wj <= Len(need_process)
  /\ LET i == need_process[wj]
     IN  IF descriptions[i] = "none"
           THEN UNCHANGED <<outFiles, progress, saved, everWritten>>
           ELSE /\ outFiles' = WriteDescription(outFiles, i, fmt, descriptions[i])
                /\ progress' = [progress EXCEPT ![i] = ProgressRecord(i)]
                /\ saved' = saved + 1
                /\ everWritten' = everWritten \cup {i}
  /\ wj' = wj + 1
  /\ UNCHANGED <<dpc, runs, edits, dims, hash, progressFile, force, fmt, grid_size,
                 small_images, large_images, bi, batch, need_process, descriptions,
                 li, total_saved, api_calls, errors, remoteCalls, skipLog, sentBatch,
                 nBatches, failedItems>>
  /\ UNCHANGED <<max_single_dim, startOut, startRecs, api_key, args_ok>>
  /\ UNCHANGED imgVars
  /\ UNCHANGED sheetVars

\* save_progress at the end of process_batch, and main()'s bookkeeping
DBatchSave ==
  /\ dpc = "b_write"
  /\ wj > Len(need_process)
  /\ progressFile' = SavedProgress(progress)
  /\ total_saved' = total_saved + saved
  /\ api_calls' = api_calls + 1
  /\ bi' = bi + grid_size * grid_size
  /\ dpc' = "batch_loop"
  /\ UNCHANGED <<runs, edits, dims, hash, outFiles, progress, force, fmt, grid_size,
                 small_images, large_images, batch, need_process, descriptions, wj,
                 saved, li, errors, remoteCalls, skipLog, everWritten, sentBatch,
                 nBatches, failedItems>>
  /\ UNCHANGED <<max_single_dim, startOut, startRecs, api_key, args_ok>>
  /\ UNCHANGED imgVars
  /\ UNCHANGED sheetVars

DBatchesDone ==
  /\ dpc = "batch_loop"
  /\ bi > Len(small_images)
  /\ dpc' = "large_loop"
  /\ li' = 1
  /\ UNCHANGED <<runs, edits, dims, hash, outFiles, progressFile, progress, force, fmt,
                 grid_size, small_images, large_images, bi, batch, need_process,
                 descriptions, wj, saved, total_saved, api_calls, errors, remoteCalls,
                 skipLog, everWritten, sentBatch, nBatches, failedItems>>
  /\ UNCHANGED <<max_single_dim, startOut, startRecs, api_key, args_ok>>
  /\ UNCHANGED imgVars
  /\ UNCHANGED sheetVars

\* ---- process_large_image: the cache check
DLargeBegin ==
  /\ dpc = "large_loop"
  /\ li <= Len(large_images)
  /\ LET i == large_images[li]
     IN  IF NeedsWork(progress, outFiles, i, fmt, force)
           THEN /\ dpc' = "l_call"
                /\ UNCHANGED <<li, total_saved, api_calls, skipLog>>
           ELSE \* returns True: main counts it as saved and as an API call
                /\ skipLog' = skipLog \cup {SkipFact(i)}
                /\ total_saved' = total_saved + 1
                /\ api_calls' = api_calls + 1
                /\ li' = li + 1
                /\ dpc' = "large_loop"
  /\ UNCHANGED <<runs, edits, dims, hash, outFiles, progressFile, progress, force, fmt,
                 grid_size, small_images, large_images, bi, batch, need_process,
                 descriptions, wj, saved, errors, remoteCalls, everWritten, sentBatch,
                 nBatches, failedItems>>
  /\ UNCHANGED <<max_single_dim, startOut, startRecs, api_key, args_ok>>
  /\ UNCHANGED imgVars
  /\ UNCHANGED sheetVars

\* generate_single_description: one remote request; None on any exception
DLargeCall ==
  /\ dpc = "l_call"
  /\ remoteCalls' = remoteCalls + 1
  /\ \E ok \in BOOLEAN :
       IF ok
         THEN /\ dpc' = "l_write"
              /\ UNCHANGED <<li, errors, api_calls, failedItems>>
         ELSE /\ failedItems' = failedItems \cup {large_images[li]}
              /\ errors' = errors + 1
              /\ api_calls' = api_calls + 1
              /\ li' = li + 1
              /\ dpc' = "large_loop"
  /\ UNCHANGED <<runs, edits, dims, hash, outFiles, progressFile, progress, force, fmt,
                 grid_size, small_images, large_images, bi, batch, need_process,
                 descriptions, wj, saved, total_saved, skipLog, everWritten,
                 sentBatch, nBatches>>
  /\ UNCHANGED <<max_single_dim, startOut, startRecs, api_key, args_ok>>
  /\ UNCHANGED imgVars
  /\ UNCHANGED sheetVars

\* process_large_image: the description file is written, then progress[str_path]
DLargeWrite ==
  /\ dpc = "l_write"
  /\ LET i == large_images[li]
     IN  /\ outFiles' = WriteDescription(outFiles, i, fmt, "real")
         /\ progress' = [progress EXCEPT ![i] = ProgressRecord(i)]
         /\ everWritten' = everWritten \cup {i}
  /\ dpc' = "l_save"
  /\ UNCHANGED <<runs, edits, dims, hash, progressFile, force, fmt, grid_size,
                 small_images, large_images, bi, batch, need_process, descriptions,
                 wj, saved, li, total_saved, api_calls, errors, remoteCalls, skipLog,
                 sentBatch, nBatches, failedItems>>
  /\ UNCHANGED <<max_single_dim, startOut, startRecs, api_key, args_ok>>
  /\ UNCHANGED imgVars
  /\ UNCHANGED sheetVars

\* process_large_image: save_progress, return True; main()'s bookkeeping
DLargeSave ==
  /\ dpc = "l_save"
  /\ progressFile' = SavedProgress(progress)
  /\ total_saved' = total_saved + 1
  /\ api_calls' = api_calls + 1
  /\ li' = li + 1
  /\ dpc' = "large_loop"
  /\ UNCHANGED <<runs, edits, dims, hash, outFiles, progress, force, fmt, grid_size,
                 small_images, large_images, bi, batch, need_process, descriptions,
                 wj, saved, errors, remoteCalls, skipLog, everWritten, sentBatch,
                 nBatches, failedItems>>
  /\ UNCHANGED <<max_single_dim, startOut, startRecs, api_key, args_ok>>
  /\ UNCHANGED imgVars
  /\ UNCHANGED sheetVars

DFinish ==
  /\ dpc = "large_loop"
  /\ li > Len(large_images)
  /\ dpc' = "done"
  /\ UNCHANGED <<runs, edits, dims, hash, outFiles, progressFile, progress, force, fmt,
                 grid_size, small_images, large_images, bi, batch, need_process,
                 descriptions, wj, saved, li, total_saved, api_calls, errors,
                 remoteCalls, skipLog, everWritten, sentBatch, nBatches, failedItems>>
  /\ UNCHANGED <<max_single_dim, startOut, startRecs, api_key, args_ok>>
  /\ UNCHANGED imgVars
  /\ UNCHANGED sheetVars

\* the process is killed between two steps: its memory is lost, the files stay
DCrash ==
  /\ DRunning
  /\ dpc' = "idle"
  /\ NoProcess
  /\ UNCHANGED <<runs, edits, dims, hash, outFiles, progressFile, everWritten>>
  /\ UNCHANGED imgVars
  /\ UNCHANGED sheetVars

\* the process is killed inside save_progress
DCrashInSave ==
  /\ \/ dpc = "b_write" /\ wj > Len(need_process)
     \/ dpc = "l_save"
  /\ progressFile' = TornProgress
  /\ dpc' = "idle"
  /\ NoProcess
  /\ UNCHANGED <<runs, edits, dims, hash, outFiles, everWritten>>
  /\ UNCHANGED imgVars
  /\ UNCHANGED sheetVars

\* the process has printed its summary (or its traceback) and exits
DExit ==
  /\ dpc \in {"done", "aborted"}
  /\ dpc' = "idle"
  /\ NoProcess
  /\ UNCHANGED <<runs, edits, dims, hash, outFiles, progressFile, everWritten>>
  /\ UNCHANGED imgVars
  /\ UNCHANGED sheetVars

DNext ==
  \/ DStartRun
  \/ DEditSource
  \/ DBatchBegin
  \/ DBatchCall
  \/ DBatchWrite
  \/ DBatchSave
  \/ DBatchesDone
  \/ DLargeBegin
  \/ DLargeCall
  \/ DLargeWrite
  \/ DLargeSave
  \/ DFinish
  \/ DCrash
  \/ DCrashInSave
  \/ DExit

DescInit == DInit /\ IIdle

SpecDesc == DescInit /\ [][DNext]_vars

\* ---- one sprite-sheet request of a description run, for batches of up to
\*      MaxSheetGrid * MaxSheetGrid items

\* main() cuts a batch of at most grid_size * grid_size items and process_batch
\* finds n of them in need of work
SheetBatch ==
  /\ spc = "off"
  /\ \E g \in 1..MaxSheetGrid :
       \E n \in 1..(g * g) :
         /\ sh_g' = g
         /\ sh_n' = n
  /\ spc' = "batch"
  /\ UNCHANGED <<sh_positions, sh_described>>
  /\ UNCHANGED <<descVars, imgVars>>

\* create_sprite_sheet(need_process)
SheetBuild ==
  /\ spc = "batch"
  /\ sh_positions' = SheetPositions(sh_n)
  /\ spc' = "sheet"
  /\ UNCHANGED <<sh_g, sh_n, sh_described>>
  /\ UNCHANGED <<descVars, imgVars>>

\* generate_grid_description after an answer with a tile for every position:
\* an entry for each of images[:count]
SheetDescribe ==
  /\ spc = "sheet"
  /\ sh_described' = Min(sh_n, Len(sh_positions))
  /\ spc' = "described"
  /\ UNCHANGED <<sh_g, sh_n, sh_positions>>
  /\ UNCHANGED <<descVars, imgVars>>

SNext ==
  \/ SheetBatch
  \/ SheetBuild
  \/ SheetDescribe

SheetInit == DInit /\ IIdle

SpecSheet == SheetInit /\ [][SNext]_vars

\* ---- runs of the description command started with any command line
CNext ==
  \/ DStartAnyArgs
  \/ DBatchBegin
  \/ DBatchCall
  \/ DBatchWrite
  \/ DBatchSave
  \/ DBatchesDone
  \/ DLargeBegin
  \/ DLargeCall
  \/ DLargeWrite
  \/ DLargeSave
  \/ DFinish
  \/ DExit

ConfigInit == DInit /\ IIdle

SpecConfig == ConfigInit /\ [][CNext]_vars


\* =========================================================================
\*  generate_images.py: the job runner and the asynchronous dispatch
\* =========================================================================
IItems == 1..NImg

\* task positions in which a job exists on the remote service for the client
JobStates == {"poll", "fetch", "download"}

\* task positions between the acquire and the release of the semaphore
InFlightStates == {"submit", "poll", "fetch", "download"}

\* answers of the remote service to the POST of a job: HTTP 200 with both urls,
\* another 2xx with both urls, an error status, 200 without the urls, or an
\* exception (timeout, transport error)
SubmitReplies == {"ok", "accepted", "http_error", "no_urls", "exception"}

\* answers to a status poll: HTTP 200 with a status, an error status, an exception
PollReplies ==
  {"IN_PROGRESS", "COMPLETED", "FAILED", "CANCELLED", "http_error", "exception"}

\* answers to the fetch of the result
FetchReplies == {"ok", "http_error", "no_images", "no_url", "exception"}

\* answers to the download of the image: a PNG, bytes that are no image, no bytes,
\* an error status, an exception
DownloadReplies == {"image", "garbage", "empty", "http_error", "exception"}

\* seconds one iteration of the poll loop takes
IterTimes == IF fineTime THEN {FAL_POLL_INTERVAL, SlowIter} ELSE {SlowIter}

\* no value of elapsed exceeds TimeCap and no poll loop issues PollCap polls;
\* a count that reached PollCap goes on between PollCap - 1 and PollCap
TimeCap == FAL_MAX_POLL_TIME + SlowIter

PollCap ==
  (FAL_MAX_POLL_TIME \div (IF fineTime THEN FAL_POLL_INTERVAL ELSE SlowIter)) + 1

PollCount(n) == IF n < PollCap THEN n + 1 ELSE PollCap - 1

\* the answers unit i can get: a unit of good fate gets only successful ones, and
\* its job completes before the maximum wait
SubmitRepliesFor(i) == IF fate[i] = "good" THEN {"ok"} ELSE SubmitReplies

PollRepliesFor(i) ==
  IF fate[i] = "good"
    THEN {"COMPLETED"} \cup
         (IF elapsed[i] + SlowIter < FAL_MAX_POLL_TIME THEN {"IN_PROGRESS"} ELSE {})
    ELSE PollReplies

FetchRepliesFor(i) == IF fate[i] = "good" THEN {"ok"} ELSE FetchReplies

DownloadRepliesFor(i) == IF fate[i] = "good" THEN {"image"} ELSE DownloadReplies

\* a semaphore that lets every task in
SemAvailable_Always(s) == TRUE

\* asyncio.Semaphore: acquire succeeds while the value is positive
SemAvailable(s) == s > 0

\* the submission is taken as successful: generate_image_async wants HTTP 200 and
\* both urls, generate_image and generate_compositional_grid any non-error
\* status (raise_for_status) and both urls
SubmitAccepted(r, reply) ==
  IF r = "async" THEN reply = "ok" ELSE reply \in {"ok", "accepted"}

\* a poll loop that gives up one interval early
PollLoopRuns_Early(e) == e + FAL_POLL_INTERVAL < FAL_MAX_POLL_TIME

\* a poll loop without a maximum wait
PollLoopRuns_Forever(e) == TRUE

\* while time.time() - poll_start < FAL_MAX_POLL_TIME
PollLoopRuns(e) == e < FAL_MAX_POLL_TIME

\* a job runner that lets exceptions escape
CatchesErrors_No == FALSE

\* except asyncio.TimeoutError / except Exception around the whole job
CatchesErrors == TRUE

\* the job of unit i as generate_image(_async) holds it; pend is the change of
\* the number of unresolved jobs on the remote service
Task(i) ==
  [pc |-> tpc[i], elapsed |-> elapsed[i], polls |-> polls[i],
   fetches |-> fetches[i], lastStatus |-> lastStatus[i], out |-> outcome[i],
   pend |-> 0]

\* return (desc, bytes) / return (desc, None)
Returned(t, o) == [t EXCEPT !.pc = "returned", !.out = o]

\* an exception inside the try block
Raised(t) == IF CatchesErrors THEN Returned(t, "error") ELSE [t EXCEPT !.pc = "raised"]

\* a submission that is sent again when the service refuses it
SubmitStep_Retry(t, r, reply) ==
  IF reply = "exception" THEN Raised(t)
  ELSE IF SubmitAccepted(r, reply) THEN [t EXCEPT !.pc = "poll", !.pend = 1]
  ELSE t

\* the POST that submits the job; poll_start = time.time()
SubmitStep(t, r, reply) ==
  IF reply = "exception" THEN Raised(t)
  ELSE IF SubmitAccepted(r, reply) THEN [t EXCEPT !.pc = "poll", !.pend = 1]
  ELSE Returned(t, "error")

\* one iteration of the poll loop: the status request and, while the job is
\* pending, the sleep
PollStep(t, reply, dt) ==
  LET p == [t EXCEPT !.polls = PollCount(t.polls)]
  IN  CASE reply = "exception" -> Raised(p)
        [] reply = "http_error" -> Returned(p, "error")
        [] reply = "COMPLETED" ->
             [p EXCEPT !.pc = "fetch", !.lastStatus = reply, !.pend = -1]
        [] reply \in {"FAILED", "CANCELLED"} ->
             [Returned(p, "failed") EXCEPT !.lastStatus = reply, !.pend = -1]
        [] OTHER ->
             [p EXCEPT !.lastStatus = reply,
                       !.elapsed = Min(t.elapsed + dt, TimeCap)]

\* the else branch of the poll loop
TimeoutStep(t) == [Returned(t, "timeout") EXCEPT !.pend = -1]

\* the GET of response_url
FetchStep(t, reply) ==
  LET f == [t EXCEPT !.fetches = 1]
  IN  CASE reply = "exception" -> Raised(f)
        [] reply = "ok" -> [f EXCEPT !.pc = "download"]
        [] OTHER -> Returned(f, "error")

\* the GET of the image url; raise_for_status raises on an error status
DownloadStep(t, reply) ==
  IF reply \in {"exception", "http_error"} THEN Raised(t) ELSE Returned(t, reply)

\* the step of the task of unit i that leaves its job as t.
\*  - an exception that leaves the task: gather raises it, run_async ends and
\*    asyncio.run cancels the tasks still running;
\*  - in a dispatch a return is followed, without any await, by
\*    save_and_report(desc, image_bytes) and the release of the semaphore.
Apply(i, t) ==
  /\ pendingRemote' = [pendingRemote EXCEPT ![i] = pendingRemote[i] + t.pend]
  /\ IF t.pc = "raised"
       THEN /\ tpc' = [j \in IItems |->
                        IF j = i THEN "raised"
                        ELSE IF tpc[j] \in {"off", "done"} THEN tpc[j]
                        ELSE "cancelled"]
            /\ ipc' = "failed"
            /\ UNCHANGED <<elapsed, polls, fetches, lastStatus, outcome, imgOut,
                           completed, saved_count, errors_count, sem>>
       ELSE IF t.pc = "returned" /\ ipc = "dispatch"
         THEN /\ completed' = completed + 1
              /\ IF t.out = "image"
                   THEN /\ imgOut' = [imgOut EXCEPT ![i] = TRUE]
                        /\ saved_count' = saved_count + 1
                        /\ UNCHANGED errors_count
                   ELSE /\ errors_count' = errors_count + 1
                        /\ UNCHANGED <<imgOut, saved_count>>
              /\ outcome' = [outcome EXCEPT ![i] =
                               IF t.out = "image" THEN "saved" ELSE "failed"]
              /\ sem' = sem + 1
              /\ tpc' = [tpc EXCEPT ![i] = "done"]
              /\ elapsed' = [elapsed EXCEPT ![i] = 0]
              /\ polls' = [polls EXCEPT ![i] = 0]
              /\ fetches' = [fetches EXCEPT ![i] = 0]
              /\ lastStatus' = [lastStatus EXCEPT ![i] = "none"]
              /\ UNCHANGED ipc
         ELSE /\ tpc' = [tpc EXCEPT ![i] = t.pc]
              /\ elapsed' = [elapsed EXCEPT ![i] = t.elapsed]
              /\ polls' = [polls EXCEPT ![i] = t.polls]
              /\ fetches' = [fetches EXCEPT ![i] = t.fetches]
              /\ lastStatus' = [lastStatus EXCEPT ![i] = t.lastStatus]
              /\ outcome' = [outcome EXCEPT ![i] = t.out]
              /\ UNCHANGED <<ipc, imgOut, completed, saved_count, errors_count, sem>>

\* the first task, in creation order, that waits for the semaphore
FirstWaiter(i) ==
  \E k \in 1..Len(to_process) :
    /\ to_process[k] = i
    /\ tpc[i] = "sem"
    /\ \A m \in 1..(k - 1) : tpc[to_process[m]] # "sem"

\* main(): the skip filter
ToProcess(out, frc) == SelectSeq([k \in 1..NImg |-> k], LAMBDA i : frc \/ ~out[i])

\* the memory of the compositional mode of a run that is not running
GNoProcess ==
  /\ idims' = [i \in IItems |-> <<64, 64>>]
  /\ img_grid' = <<1, 1>>
  /\ grid_position' = [i \in IItems |-> NoCell]
  /\ gi' = 1
  /\ gbatch' = <<>>
  /\ promptCell' = [i \in IItems |-> NoCell]
  /\ gpath' = "none"
  /\ composite' = NoComposite
  /\ cell_req' = <<0, 0>>
  /\ grid_images' = <<>>
  /\ results' = <<>>
  /\ ri' = 1
  /\ isaved' = 0
  /\ ierrors' = 0
  /\ outCell' = [i \in IItems |-> NoCell]

\* the memory of an image run that is not running
INoProcess ==
  /\ GNoProcess
  /\ iforce' = FALSE
  /\ max_concurrent' = 1
  /\ to_process' = <<>>
  /\ skipped' = 0
  /\ fate' = [i \in IItems |-> "good"]
  /\ tpc' = [i \in IItems |-> "off"]
  /\ sem' = 0
  /\ elapsed' = [i \in IItems |-> 0]
  /\ polls' = [i \in IItems |-> 0]
  /\ fetches' = [i \in IItems |-> 0]
  /\ lastStatus' = [i \in IItems |-> "none"]
  /\ outcome' = [i \in IItems |-> "none"]
  /\ completed' = 0
  /\ saved_count' = 0
  /\ errors_count' = 0
  /\ submits' = [i \in IItems |-> 0]

\* main() up to asyncio.run(run_async()): the skip filter, the tasks are created
IStartAsync ==
  /\ ipc = "idle"
  /\ iruns < MaxImgRuns
  /\ iruns' = iruns + 1
  /\ \E f \in BOOLEAN, c \in 1..MaxConcurrent, ft \in [IItems -> {"good", "any"}] :
       /\ iforce' = f
       /\ max_concurrent' = c
       /\ fate' = ft
       /\ sem' = c
       /\ LET tp == ToProcess(imgOut, f)
          IN  /\ to_process' = tp
              /\ skipped' = NImg - Len(tp)
              /\ tpc' = [i \in IItems |-> IF i \in Range(tp) THEN "sem" ELSE "off"]
              /\ ipc' = IF tp = <<>> THEN "done" ELSE "dispatch"
  /\ elapsed' = [i \in IItems |-> 0]
  /\ polls' = [i \in IItems |-> 0]
  /\ fetches' = [i \in IItems |-> 0]
  /\ lastStatus' = [i \in IItems |-> "none"]
  /\ outcome' = [i \in IItems |-> "none"]
  /\ completed' = 0
  /\ saved_count' = 0
  /\ errors_count' = 0
  /\ submits' = [i \in IItems |-> 0]
  /\ UNCHANGED <<runner, fineTime, imgOut, pendingRemote>>
  /\ UNCHANGED gridVars
  /\ UNCHANGED descVars
  /\ UNCHANGED sheetVars

\* async with semaphore: the task enters
TAcquire(i) ==
  /\ ipc = "dispatch"
  /\ FirstWaiter(i)
  /\ SemAvailable(sem)
  /\ sem' = sem - 1
  /\ tpc' = [tpc EXCEPT ![i] = "submit"]
  /\ UNCHANGED <<ipc, iruns, runner, fineTime, imgOut, iforce, max_concurrent,
                 to_process, skipped, fate, elapsed, polls, fetches, lastStatus,
                 outcome, completed, saved_count, errors_count, submits,
                 pendingRemote>>
  /\ UNCHANGED gridVars
  /\ UNCHANGED descVars
  /\ UNCHANGED sheetVars

\* the task of unit i submits its job
TSubmit(i) ==
  /\ ipc \in {"dispatch", "job"}
  /\ tpc[i] = "submit"
  /\ submits' = [submits EXCEPT ![i] = submits[i] + 1]
  /\ \E reply \in SubmitRepliesFor(i) : Apply(i, SubmitStep(Task(i), runner, reply))
  /\ UNCHANGED <<iruns, runner, fineTime, iforce, max_concurrent, to_process,
                 skipped, fate>>
  /\ UNCHANGED gridVars
  /\ UNCHANGED descVars
  /\ UNCHANGED sheetVars

\* the task of unit i polls its job
TPoll(i) ==
  /\ ipc \in {"dispatch", "job"}
  /\ tpc[i] = "poll"
  /\ PollLoopRuns(elapsed[i])
  /\ \E reply \in PollRepliesFor(i), dt \in IterTimes :
       Apply(i, PollStep(Task(i), reply, dt))
  /\ UNCHANGED <<iruns, runner, fineTime, iforce, max_concurrent, to_process,
                 skipped, fate, submits>>
  /\ UNCHANGED gridVars
  /\ UNCHANGED descVars
  /\ UNCHANGED sheetVars

\* the task of unit i finds the maximum wait over
TTimeout(i) ==
  /\ ipc \in {"dispatch", "job"}
  /\ tpc[i] = "poll"
  /\ ~PollLoopRuns(elapsed[i])
  /\ Apply(i, TimeoutStep(Task(i)))
  /\ UNCHANGED <<iruns, runner, fineTime, iforce, max_concurrent, to_process,
                 skipped, fate, submits>>
  /\ UNCHANGED gridVars
  /\ UNCHANGED descVars
  /\ UNCHANGED sheetVars

\* the task of unit i fetches the result of its job
TFetch(i) ==
  /\ ipc \in {"dispatch", "job"}
  /\ tpc[i] = "fetch"
  /\ \E reply \in FetchRepliesFor(i) : Apply(i, FetchStep(Task(i), reply))
  /\ UNCHANGED <<iruns, runner, fineTime, iforce, max_concurrent, to_process,
                 skipped, fate, submits>>
  /\ UNCHANGED gridVars
  /\ UNCHANGED descVars
  /\ UNCHANGED sheetVars

\* the task of unit i downloads the image
TDownload(i) ==
  /\ ipc \in {"dispatch", "job"}
  /\ tpc[i] = "download"
  /\ \E reply \in DownloadRepliesFor(i) : Apply(i, DownloadStep(Task(i), reply))
  /\ UNCHANGED <<iruns, runner, fineTime, iforce, max_concurrent, to_process,
                 skipped, fate, submits>>
  /\ UNCHANGED gridVars
  /\ UNCHANGED descVars
  /\ UNCHANGED sheetVars

\* asyncio.gather returns: every task is done; main() prints the summary
IFinish ==
  /\ ipc = "dispatch"
  /\ \A i \in IItems : tpc[i] \in {"off", "done"}
  /\ ipc' = "done"
  /\ UNCHANGED <<iruns, runner, fineTime, imgOut, iforce, max_concurrent,
                 to_process, skipped, fate, tpc, sem, elapsed, polls, fetches,
                 lastStatus, outcome, completed, saved_count, errors_count, submits,
                 pendingRemote>>
  /\ UNCHANGED gridVars
  /\ UNCHANGED descVars
  /\ UNCHANGED sheetVars

\* the process is killed during the dispatch: its memory is lost, the files and
\* the jobs on the remote service stay
ICrash ==
  /\ ipc = "dispatch"
  /\ ipc' = "idle"
  /\ INoProcess
  /\ UNCHANGED <<iruns, runner, fineTime, imgOut, pendingRemote>>
  /\ UNCHANGED descVars
  /\ UNCHANGED sheetVars

\* the process exits
IExit ==
  /\ ipc \in {"done", "failed"}
  /\ ipc' = "idle"
  /\ INoProcess
  /\ UNCHANGED <<iruns, runner, fineTime, imgOut, pendingRemote>>
  /\ UNCHANGED descVars
  /\ UNCHANGED sheetVars

ANext ==
  \/ IStartAsync
  \/ \E i \in IItems : TAcquire(i)
  \/ \E i \in IItems : TSubmit(i)
  \/ \E i \in IItems : TPoll(i)
  \/ \E i \in IItems : TTimeout(i)
  \/ \E i \in IItems : TFetch(i)
  \/ \E i \in IItems : TDownload(i)
  \/ IFinish
  \/ ICrash
  \/ IExit

\* the description run does not take part in an image run
DIdle ==
  /\ DInit
  /\ dims = [i \in DItems |-> DSizes[1]]

AsyncInit == DIdle /\ IIdle

SpecAsync == AsyncInit /\ [][ANext]_vars

\* ---- one job run by generate_image_async or by generate_image, with time in
\*      seconds: unit 1 is at its submission, there is no dispatch around it
JobInit ==
  /\ DIdle
  /\ GIdle
  /\ ipc = "job"
  /\ iruns = 1
  /\ runner \in {"async", "sync"}
  /\ fineTime = TRUE
  /\ imgOut = [i \in IItems |-> FALSE]
  /\ iforce = FALSE
  /\ max_concurrent = 1
  /\ to_process = <<1>>
  /\ skipped = 0
  /\ fate \in {[i \in IItems |-> f] : f \in {"good", "any"}}
  /\ tpc = [i \in IItems |-> IF i = 1 THEN "submit" ELSE "off"]
  /\ sem = 0
  /\ elapsed = [i \in IItems |-> 0]
  /\ polls = [i \in IItems |-> 0]
  /\ fetches = [i \in IItems |-> 0]
  /\ lastStatus = [i \in IItems |-> "none"]
  /\ outcome = [i \in IItems |-> "none"]
  /\ completed = 0
  /\ saved_count = 0
  /\ errors_count = 0
  /\ submits = [i \in IItems |-> 0]
  /\ pendingRemote = [i \in IItems |-> 0]

JNext ==
  \/ \E i \in IItems : TSubmit(i)
  \/ \E i \in IItems : TPoll(i)
  \/ \E i \in IItems : TTimeout(i)
  \/ \E i \in IItems : TFetch(i)
  \/ \E i \in IItems : TDownload(i)

SpecJob == JobInit /\ [][JNext]_vars

\* ---- the three job runners side by side, with time in seconds: unit 1 is run
\*      by generate_image_async, unit 2 by generate_image, unit 3 by the loop body
\*      of generate_compositional_grid, and every answer of the remote service
\*      is given to all the runners that are at the request it answers
RunnerUnits == {1, 2, 3}

RunnerOf(u) == CASE u = 1 -> "async" [] u = 2 -> "sync" [] OTHER -> "grid"

RunnersInit ==
  /\ DIdle
  /\ GIdle
  /\ ipc = "runners"
  /\ iruns = 1
  /\ runner = "async"
  /\ fineTime = TRUE
  /\ imgOut = [i \in IItems |-> FALSE]
  /\ iforce = FALSE
  /\ max_concurrent = 1
  /\ to_process = <<1, 2, 3>>
  /\ skipped = 0
  /\ fate = [i \in IItems |-> "any"]
  /\ tpc = [i \in IItems |-> IF i \in RunnerUnits THEN "submit" ELSE "off"]
  /\ sem = 0
  /\ elapsed = [i \in IItems |-> 0]
  /\ polls = [i \in IItems |-> 0]
  /\ fetches = [i \in IItems |-> 0]
  /\ lastStatus = [i \in IItems |-> "none"]
  /\ outcome = [i \in IItems |-> "none"]
  /\ completed = 0
  /\ saved_count = 0
  /\ errors_count = 0
  /\ submits = [i \in IItems |-> 0]
  /\ pendingRemote = [i \in IItems |-> 0]

\* the runners leave their jobs as T[u]
RApply(T) ==
  /\ tpc' = [i \in IItems |-> IF i \in RunnerUnits THEN T[i].pc ELSE tpc[i]]
  /\ elapsed' = [i \in IItems |-> IF i \in RunnerUnits THEN T[i].elapsed ELSE elapsed[i]]
  /\ polls' = [i \in IItems |-> IF i \in RunnerUnits THEN T[i].polls ELSE polls[i]]
  /\ fetches' = [i \in IItems |-> IF i \in RunnerUnits THEN T[i].fetches ELSE fetches[i]]
  /\ lastStatus' =
       [i \in IItems |-> IF i \in RunnerUnits THEN T[i].lastStatus ELSE lastStatus[i]]
  /\ outcome' = [i \in IItems |-> IF i \in RunnerUnits THEN T[i].out ELSE outcome[i]]
  /\ pendingRemote' =
       [i \in IItems |->
          IF i \in RunnerUnits THEN pendingRemote[i] + T[i].pend ELSE pendingRemote[i]]
  /\ UNCHANGED <<ipc, iruns, runner, fineTime, imgOut, iforce, max_concurrent,
                 to_process, skipped, fate, sem, completed, saved_count, errors_count>>
  /\ UNCHANGED gridVars
  /\ UNCHANGED descVars
  /\ UNCHANGED sheetVars

\* the submission is answered
RSubmit ==
  /\ ipc = "runners"
  /\ \E u \in RunnerUnits : tpc[u] = "submit"
  /\ submits' = [i \in IItems |->
                   IF i \in RunnerUnits /\ tpc[i] = "submit" THEN submits[i] + 1
                   ELSE submits[i]]
  /\ \E reply \in SubmitReplies :
       RApply([u \in RunnerUnits |->
                 IF tpc[u] = "submit" THEN SubmitStep(Task(u), RunnerOf(u), reply)
                 ELSE Task(u)])

\* a status poll is answered
RPoll ==
  /\ ipc = "runners"
  /\ \E u \in RunnerUnits : tpc[u] = "poll" /\ PollLoopRuns(elapsed[u])
  /\ \E reply \in PollReplies, dt \in IterTimes :
       RApply([u \in RunnerUnits |->
                 IF tpc[u] = "poll" /\ PollLoopRuns(elapsed[u])
                   THEN PollStep(Task(u), reply, dt)
                   ELSE Task(u)])
  /\ UNCHANGED submits

\* the maximum wait is over
RTimeout ==
  /\ ipc = "runners"
  /\ \E u \in RunnerUnits : tpc[u] = "poll" /\ ~PollLoopRuns(elapsed[u])
  /\ RApply([u \in RunnerUnits |->
               IF tpc[u] = "poll" /\ ~PollLoopRuns(elapsed[u])
                 THEN TimeoutStep(Task(u))
                 ELSE Task(u)])
  /\ UNCHANGED submits

\* the fetch of the result is answered
RFetch ==
  /\ ipc = "runners"
  /\ \E u \in RunnerUnits : tpc[u] = "fetch"
  /\ \E reply \in FetchReplies :
       RApply([u \in RunnerUnits |->
                 IF tpc[u] = "fetch" THEN FetchStep(Task(u), reply) ELSE Task(u)])
  /\ UNCHANGED submits

\* the download of the image is answered
RDownload ==
  /\ ipc = "runners"
  /\ \E u \in RunnerUnits : tpc[u] = "download"
  /\ \E reply \in DownloadReplies :
       RApply([u \in RunnerUnits |->
                 IF tpc[u] = "download" THEN DownloadStep(Task(u), reply) ELSE Task(u)])
  /\ UNCHANGED submits

RNext ==
  \/ RSubmit
  \/ RPoll
  \/ RTimeout
  \/ RFetch
  \/ RDownload

SpecRunners == RunnersInit /\ [][RNext]_vars

\* =========================================================================
\*  generate_images.py: the compositional grid mode
\* =========================================================================

\* the sizes image_sizes.json can hold for the descriptions, which
\* load_json_descriptions returns sorted by (width, height, path)
ImgSizeProfiles ==
  {[i \in IItems |-> <<64, 64>>],
   [i \in IItems |-> IF i = 1 THEN <<32, 32>> ELSE <<64, 64>>]}

\* the ways the remote exchange of one batch ends: a request raises (also
\* raise_for_status), the submission answer lacks an url, the job is not
\* completed (poll error, FAILED, CANCELLED, timeout), the fetch is refused, the
\* result holds no image url, or the composite image is downloaded
GridPaths == {"exception", "no_urls", "not_completed", "fetch_error", "no_images", "image"}

\* the composite images the service can return for a batch: bytes that are no
\* image, or an image whose cells have the requested or another footprint, with
\* or without a remainder of pixels on the right
Composites(gs, cw, ch) ==
  {NoComposite} \cup
  {[decodable |-> TRUE, width |-> gs[2] * fw + r, height |-> gs[1] * fh] :
     fw \in {cw, Footprint}, fh \in {ch, Footprint}, r \in {0, gs[2] - 1}}

\* descriptions[i : i + rows * cols]
GridBatch(s, start, gs) == SubSeq(s, start, Min(start + gs[1] * gs[2] - 1, Len(s)))

\* build_combined_grid_prompt: "Cell (row + 1, col + 1)" of the i-th description
\* of the batch (i from 0)
PromptCell_ByRows(i, gs) == <<(i \div gs[1]) + 1, (i % gs[1]) + 1>>

PromptCell(i, gs) == <<(i \div gs[2]) + 1, (i % gs[2]) + 1>>

\* split_grid_image: the resize condition
NeedsResize_Both(cw, ch, caw, cah) == cw # caw /\ ch # cah

NeedsResize(cw, ch, caw, cah) == cw # caw \/ ch # cah

\* split_grid_image: the list returned from the except branch
SplitFailure_Empty(gs) == <<>>

SplitFailure(gs) == [k \in 1..(gs[1] * gs[2]) |-> NoneCell]

\* split_grid_image: the cell appended in iteration (row, col) of the nested
\* loops: cropped at (left, upper) with the derived footprint, resized to the
\* requested size when the two differ
SplitCell(c, gs, cw, ch, row, col) ==
  LET caw == c.width \div gs[2]
      cah == c.height \div gs[1]
      rs  == NeedsResize(cw, ch, caw, cah)
  IN  [ok |-> TRUE, row |-> row, col |-> col,
       left |-> col * caw, upper |-> row * cah, srcw |-> caw, srch |-> cah,
       w |-> IF rs THEN cw ELSE caw, h |-> IF rs THEN ch ELSE cah, scaled |-> rs]

\* the cells of row `row` in the order the inner loop appends them
RECURSIVE SplitRow(_, _, _, _, _, _)
SplitRow(c, gs, cw, ch, row, col) ==
  IF col >= gs[2] THEN <<>>
  ELSE <<SplitCell(c, gs, cw, ch, row, col)>> \o SplitRow(c, gs, cw, ch, row, col + 1)

\* the rows in the order the outer loop runs through them
RECURSIVE SplitRows(_, _, _, _, _)
SplitRows(c, gs, cw, ch, row) ==
  IF row >= gs[1] THEN <<>>
  ELSE SplitRow(c, gs, cw, ch, row, 0) \o SplitRows(c, gs, cw, ch, row + 1)

\* split_grid_image(grid_bytes, grid_size, cell_width, cell_height)
split_grid_image(c, gs, cw, ch) ==
  IF c.decodable THEN SplitRows(c, gs, cw, ch, 0) ELSE SplitFailure(gs)

\* for desc, img_bytes in zip(batch, grid_images): results.append((desc, img_bytes))
ZipResults(b, cells) ==
  [k \in 1..Min(Len(b), Len(cells)) |-> [desc |-> b[k], img |-> cells[k]]]

\* for desc in batch: results.append((desc, None))
FailedResults_Drop(b) == <<>>

FailedResults(b) == [k \in 1..Len(b) |-> [desc |-> b[k], img |-> NoneCell]]

\* main(): desc.grid_position = (i // grid_size[1], i % grid_size[1]) for
\* i, desc in enumerate(to_process)
GridPositions(tp, gs) ==
  [i \in IItems |->
     IF \E k \in 1..Len(tp) : tp[k] = i
       THEN LET k == CHOOSE k \in 1..Len(tp) : tp[k] = i
            IN  <<(k - 1) \div gs[2], (k - 1) % gs[2]>>
       ELSE NoCell]

\* the variables of the asynchronous dispatch, which a compositional run leaves alone
asyncVars == <<runner, fineTime, max_concurrent, fate, tpc, sem, elapsed, polls,
               fetches, lastStatus, outcome, completed, saved_count, errors_count,
               submits, pendingRemote>>

\* main() with --compositional up to the call of generate_compositional_grid
IStartGrid ==
  /\ ipc = "idle"
  /\ iruns < MaxImgRuns
  /\ iruns' = iruns + 1
  /\ \E f \in BOOLEAN, rows \in 1..MaxGridDim, cols \in 1..MaxGridDim,
        sz \in ImgSizeProfiles :
       /\ iforce' = f
       /\ idims' = sz
       /\ img_grid' = <<rows, cols>>
       /\ LET tp == ToProcess(imgOut, f)
          IN  /\ to_process' = tp
              /\ skipped' = NImg - Len(tp)
              /\ ipc' = IF tp = <<>> THEN "done" ELSE "grid"
              /\ grid_position' =
                   IF tp = <<>> THEN grid_position ELSE GridPositions(tp, <<rows, cols>>)
  /\ gi' = 1
  /\ gbatch' = <<>>
  /\ promptCell' = [i \in IItems |-> NoCell]
  /\ gpath' = "none"
  /\ composite' = NoComposite
  /\ cell_req' = <<0, 0>>
  /\ grid_images' = <<>>
  /\ results' = <<>>
  /\ ri' = 1
  /\ isaved' = 0
  /\ ierrors' = 0
  /\ outCell' = [i \in IItems |-> NoCell]
  /\ UNCHANGED <<imgOut, asyncVars>>
  /\ UNCHANGED descVars
  /\ UNCHANGED sheetVars

\* one iteration of the loop of generate_compositional_grid: the combined
\* prompt, the remote exchange, split_grid_image and the results of the batch
GBatch ==
  /\ ipc = "grid"
  /\ gi <= Len(to_process)
  /\ LET b  == GridBatch(to_process, gi, img_grid)
         cw == idims[b[1]][1]
         ch == idims[b[1]][2]
     IN  /\ gbatch' = b
         /\ promptCell' = [i \in IItems |->
                             IF \E k \in 1..Len(b) : b[k] = i
                               THEN PromptCell((CHOOSE k \in 1..Len(b) : b[k] = i) - 1,
                                               img_grid)
                               ELSE promptCell[i]]
         /\ \E path \in GridPaths :
              /\ gpath' = path
              /\ IF path = "image"
                   THEN \E c \in Composites(img_grid, cw, ch) :
                          /\ composite' = c
                          /\ cell_req' = <<cw, ch>>
                          /\ grid_images' = split_grid_image(c, img_grid, cw, ch)
                          /\ results' = results \o
                               ZipResults(b, split_grid_image(c, img_grid, cw, ch))
                   ELSE /\ results' = results \o FailedResults(b)
                        /\ UNCHANGED <<composite, cell_req, grid_images>>
  /\ gi' = gi + img_grid[1] * img_grid[2]
  /\ UNCHANGED <<ipc, iruns, imgOut, iforce, to_process, skipped, idims, img_grid,
                 grid_position, ri, isaved, ierrors, outCell, asyncVars>>
  /\ UNCHANGED descVars
  /\ UNCHANGED sheetVars

\* generate_compositional_grid returns results
GLoopDone ==
  /\ ipc = "grid"
  /\ gi > Len(to_process)
  /\ ipc' = "g_save"
  /\ ri' = 1
  /\ UNCHANGED <<iruns, imgOut, iforce, to_process, skipped, idims, img_grid,
                 grid_position, gi, gbatch, promptCell, gpath, composite, cell_req,
                 grid_images, results, isaved, ierrors, outCell, asyncVars>>
  /\ UNCHANGED descVars
  /\ UNCHANGED sheetVars

\* one iteration of main()'s loop over results: the cell is saved as the output
\* of its description (the save can raise), a None is counted as an error
GSave ==
  /\ ipc = "g_save"
  /\ ri <= Len(results)
  /\ LET r == results[ri]
     IN  IF r.img.ok
           THEN \E written \in BOOLEAN :
                  IF written
                    THEN /\ imgOut' = [imgOut EXCEPT ![r.desc] = TRUE]
                         /\ outCell' = [outCell EXCEPT ![r.desc] = <<r.img.row, r.img.col>>]
                         /\ isaved' = isaved + 1
                         /\ UNCHANGED ierrors
                    ELSE /\ ierrors' = ierrors + 1
                         /\ UNCHANGED <<imgOut, outCell, isaved>>
           ELSE /\ ierrors' = ierrors + 1
                /\ UNCHANGED <<imgOut, outCell, isaved>>
  /\ ri' = ri + 1
  /\ UNCHANGED <<ipc, iruns, iforce, to_process, skipped, idims, img_grid,
                 grid_position, gi, gbatch, promptCell, gpath, composite, cell_req,
                 grid_images, results, asyncVars>>
  /\ UNCHANGED descVars
  /\ UNCHANGED sheetVars

\* main() prints the summary
GFinish ==
  /\ ipc = "g_save"
  /\ ri > Len(results)
  /\ ipc' = "done"
  /\ UNCHANGED <<iruns, imgOut, iforce, to_process, skipped, idims, img_grid,
                 grid_position, gi, gbatch, promptCell, gpath, composite, cell_req,
                 grid_images, results, ri, isaved, ierrors, outCell, asyncVars>>
  /\ UNCHANGED descVars
  /\ UNCHANGED sheetVars

\* the process is killed during a compositional run
GCrash ==
  /\ ipc \in {"grid", "g_save"}
  /\ ipc' = "idle"
  /\ INoProcess
  /\ UNCHANGED <<iruns, runner, fineTime, imgOut, pendingRemote>>
  /\ UNCHANGED descVars
  /\ UNCHANGED sheetVars

GNext ==
  \/ IStartGrid
  \/ GBatch
  \/ GLoopDone
  \/ GSave
  \/ GFinish
  \/ GCrash
  \/ IExit

GridInit == DIdle /\ IIdle

SpecGrid == GridInit /\ [][GNext]_vars

\* =========================================================================
\*  Properties of the image run
\* =========================================================================

\* units between the acquire and the release of the semaphore
InFlight == {i \in IItems : tpc[i] \in InFlightStates}

\* C3: at every instant of an asynchronous dispatch at most max_concurrent units
\* are submitted and not yet resolved; a further unit enters only after a slot
\* was released.
C3_AtMostMaxConcurrent ==
  ipc = "dispatch" =>
    /\ Cardinality(InFlight) <= max_concurrent
    /\ sem + Cardinality(InFlight) = max_concurrent

\* every slot is taken and a further unit waits for one
C3_Witness ==
  /\ ipc = "dispatch"
  /\ Cardinality(InFlight) = max_concurrent
  /\ max_concurrent = MaxConcurrent
  /\ \E i \in IItems : tpc[i] = "sem"

\* C4: a job is fetched only after a poll reported COMPLETED; FAILED or
\* CANCELLED resolves it as an error without a fetch; it is resolved as timed
\* out only when the elapsed polling time has reached FAL_MAX_POLL_TIME; once
\* resolved it keeps its one outcome and no further poll or fetch is issued.
C4_StateOk ==
  \A i \in IItems :
    /\ fetches[i] > 0 => lastStatus[i] = "COMPLETED"
    /\ tpc[i] \in {"fetch", "download"} => lastStatus[i] = "COMPLETED"
    /\ lastStatus[i] \in {"FAILED", "CANCELLED"} =>
         (tpc[i] = "returned" /\ outcome[i] = "failed" /\ fetches[i] = 0)
    /\ outcome[i] = "timeout" =>
         (elapsed[i] >= FAL_MAX_POLL_TIME /\ fetches[i] = 0)
    /\ outcome[i] \in {"image", "garbage", "empty"} => fetches[i] > 0
    /\ (tpc[i] = "returned") <=> (outcome[i] # "none")

C4_StepOk ==
  \A i \in IItems :
    /\ fetches'[i] > fetches[i] => lastStatus[i] = "COMPLETED"
    /\ tpc[i] = "returned" =>
         /\ tpc'[i] = "returned"
         /\ outcome'[i] = outcome[i]
         /\ polls'[i] = polls[i]
         /\ fetches'[i] = fetches[i]

C4_JobStateMachine == [](C4_StateOk) /\ [][C4_StepOk]_vars

\* the service answered 'pending' to one poll per second until the job timed out
C4_Witness ==
  \E i \in IItems :
    /\ tpc[i] = "returned"
    /\ outcome[i] = "timeout"
    /\ polls[i] = FAL_MAX_POLL_TIME
    /\ elapsed[i] = FAL_MAX_POLL_TIME

\* ---- the dispatch of one run under the scheduling of the event loop: while a
\*      task can run, some task runs
FNext ==
  \/ IStartAsync
  \/ \E i \in IItems : TAcquire(i)
  \/ \E i \in IItems : TSubmit(i)
  \/ \E i \in IItems : TPoll(i)
  \/ \E i \in IItems : TTimeout(i)
  \/ \E i \in IItems : TFetch(i)
  \/ \E i \in IItems : TDownload(i)
  \/ IFinish

FairAsync == AsyncInit /\ [][FNext]_vars /\ WF_vars(FNext)

C6_RestartResumesPendingJobs ==
  (ipc = "dispatch" /\ iruns >= 2 /\ \E j \in IItems : submits[j] > 0) =>
    \A i \in IItems :
      pendingRemote[i] = (IF tpc[i] = "poll" THEN 1 ELSE 0)

\* C7: a failure of one unit fails that unit only: every unit whose own remote
\* calls succeed runs to completion and has its output saved.
C7_SiblingsComplete ==
  ipc \in {"done", "failed"} =>
    \A i \in Range(to_process) :
      fate[i] = "good" => (outcome[i] = "saved" /\ imgOut[i])

\* a run has ended in which one unit failed and two siblings were saved
C7_Witness ==
  /\ ipc = "done"
  /\ Len(to_process) = NImg
  /\ \E i \in IItems :
       /\ outcome[i] = "failed"
       /\ \A j \in IItems \ {i} : fate[j] = "good" /\ outcome[j] = "saved"

\* =========================================================================
\*  Properties of the description run
\* =========================================================================

\* C1: in a non-forced run an item is skipped only if a cache record with the
\* item's current hash exists AND its expected output file exists.
C1_SkippedOnlyIfCachedAndOutput ==
  \A s \in skipLog : s.matched /\ s.output

\* C2: if the persisted cache index holds a record for an item, the item's
\* output file has been written (in every state, also after a crash).
C2_RecordOnlyAfterOutput ==
  \A i \in DItems :
    (progressFile.ok /\ progressFile.recs[i] # NoRecord)
      => \E f \in Formats : DescExists(outFiles, i, f)

\* a crash has left one item recorded and another written but not recorded
C2_Witness ==
  /\ dpc = "idle"
  /\ progressFile.ok
  /\ \E i, j \in DItems :
       /\ progressFile.recs[i] # NoRecord
       /\ progressFile.recs[j] = NoRecord
       /\ \E f \in Formats : DescExists(outFiles, j, f)

\* C8: when the one remote call of a batch fails, every item of that batch is
\* reported as failed: the error count of the finished run covers every item
\* whose unit's remote call failed.
C8_FailedBatchItemsReported ==
  dpc = "done" => errors >= Cardinality(failedItems)

\* C9: the k-th item of a batch (k counted from the batch start) is laid on cell
\* ((k-1) div cols, (k-1) mod cols) of the grid whose capacity cut the batch, so
\* every assigned cell lies inside that grid (positions are the 1-based cells).
C9_PositionInsideGrid ==
  \A k \in 1..Len(sentBatch.items) :
    /\ k <= Len(sentBatch.positions)
    /\ sentBatch.positions[k] =
         <<((k - 1) \div sentBatch.g) + 1, ((k - 1) % sentBatch.g) + 1>>
    /\ sentBatch.positions[k][1] <= sentBatch.g
    /\ sentBatch.positions[k][2] <= sentBatch.g

\* C10: every batch sent as one sprite sheet holds only items of one
\* (width, height).
C10_BatchOfOneSize ==
  \A a, b \in Range(sentBatch.items) : dims[a] = dims[b]

C11_SplitReturnsAllCells ==
  gpath = "image" =>
    /\ Len(grid_images) = img_grid[1] * img_grid[2]
    /\ composite.decodable =>
         \A k \in 1..Len(grid_images) :
           /\ grid_images[k].ok
           /\ grid_images[k].row = (k - 1) \div img_grid[2]
           /\ grid_images[k].col = (k - 1) % img_grid[2]
    /\ ~composite.decodable =>
         /\ \A k \in 1..Len(grid_images) : grid_images[k] = NoneCell
         /\ \A k \in 1..Len(gbatch) :
              \E n \in 1..Len(results) :
                results[n] = [desc |-> gbatch[k], img |-> NoneCell]

\* an undecodable composite came back for a batch of 3 in a 2x2 grid and the
\* run counted 3 errors
C11_Witness ==
  /\ ipc = "done"
  /\ gpath = "image"
  /\ ~composite.decodable
  /\ img_grid = <<2, 2>>
  /\ Len(gbatch) = 3
  /\ Len(grid_images) = 4
  /\ ierrors = 3

\* C12: the footprint of a cell is (actual width div cols, actual height div
\* rows), cell (row, col) is cropped at (col * cellW, row * cellH), a footprint
\* that differs from the requested size is resized to exactly the requested
\* width and height, an equal one is returned unscaled.
C12_CellsCroppedAndScaled ==
  (gpath = "image" /\ composite.decodable) =>
    \A k \in 1..Len(grid_images) :
      LET c  == grid_images[k]
          fw == composite.width \div img_grid[2]
          fh == composite.height \div img_grid[1]
      IN  /\ c.srcw = fw
          /\ c.srch = fh
          /\ c.left = c.col * fw
          /\ c.upper = c.row * fh
          /\ (<<fw, fh>> # cell_req) => (c.scaled /\ <<c.w, c.h>> = cell_req)
          /\ (<<fw, fh>> = cell_req) => (~c.scaled /\ <<c.w, c.h>> = <<fw, fh>>)

\* a composite of footprint Footprint x Footprint was split for requested 64x64
C12_Witness ==
  /\ gpath = "image"
  /\ composite.decodable
  /\ img_grid = <<2, 2>>
  /\ composite.width \div img_grid[2] = Footprint
  /\ composite.height \div img_grid[1] = Footprint
  /\ cell_req = <<64, 64>>
  /\ \A k \in 1..Len(grid_images) :
       grid_images[k].scaled /\ grid_images[k].w = 64 /\ grid_images[k].h = 64

\* C13: the k-th sub-result of a batch is paired with the k-th item of the
\* batch and is the cell the combined prompt named for that item; the
\* sub-results beyond the batch are paired with no item and written nowhere.
C13_PackUnpackRoundTrip ==
  /\ gpath = "image" =>
       /\ Len(grid_images) = img_grid[1] * img_grid[2]
       /\ Len(results) >= Len(gbatch)
       /\ \A k \in 1..Len(gbatch) :
            results[Len(results) - Len(gbatch) + k] =
              [desc |-> gbatch[k], img |-> grid_images[k]]
  /\ Len(results) <= Len(to_process)
  /\ \A n \in 1..Len(results) :
       results[n].img.ok =>
         <<results[n].img.row + 1, results[n].img.col + 1>> = promptCell[results[n].desc]
  /\ \A i \in IItems :
       outCell[i] # NoCell => <<outCell[i][1] + 1, outCell[i][2] + 1>> = promptCell[i]

\* 3 items were packed into a 2x2 grid, 4 cells came back and 3 were saved
C13_Witness ==
  /\ ipc = "done"
  /\ gpath = "image"
  /\ composite.decodable
  /\ img_grid = <<2, 2>>
  /\ Len(gbatch) = 3
  /\ Len(grid_images) = 4
  /\ Len(results) = 3
  /\ isaved = 3

CachedSkips == {s.item : s \in {t \in skipLog : t.matched /\ t.output}}

\* C14: an item skipped because its output exists and its recorded hash is
\* current is not reported as saved: the saved count of a finished run covers
\* no such item.
C14_CachedItemNotSaved ==
  dpc = "done" => total_saved <= NDesc - Cardinality(CachedSkips)

C16_CorruptIndexIsEmpty ==
  dpc # "aborted"

\* C17: the classification is by the configured threshold of the run: small is
\* the subsequence of the candidates with width and height <= max_single_dim,
\* large the subsequence of the others.
C17_ClassifiedByConfiguredThreshold ==
  (DRunning \/ dpc = "done") =>
    /\ small_images =
         SelectSeq(AllImages, LAMBDA i : dims[i][1] <= max_single_dim
                                          /\ dims[i][2] <= max_single_dim)
    /\ large_images =
         SelectSeq(AllImages, LAMBDA i : ~(dims[i][1] <= max_single_dim
                                            /\ dims[i][2] <= max_single_dim))

\* C19: at the end of a run skipped + saved + failed is the number of
\* candidate items.
C19_CountsAccountForEveryItem ==
  dpc = "done" =>
    Cardinality({s.item : s \in skipLog}) + total_saved + errors = NDesc

\* C22: an item that never obtained a real result from the remote service has
\* no cache record: in and after the first run over a fresh directory every
\* recorded item has a description the service returned for it.
C22_NoRecordWithoutRealResult ==
  runs <= 1 =>
    \A i \in DItems :
      (progressFile.ok /\ progressFile.recs[i] # NoRecord) =>
        \E f \in Formats : outFiles[<<i, f>>] = "real"

\* C24: the 'API calls made' figure of a finished run is the number of
\* requests the run sent.
C24_ApiCallsAreRequests ==
  dpc = "done" => api_calls = remoteCalls

\* the command line of the run is a configuration failure
ConfigInvalid == ~api_key \/ ~args_ok \/ grid_size <= 0 \/ max_single_dim <= 0

\* C21: a run with a missing API key or an invalid grid size or threshold is
\* aborted before any remote call is made and before any output or cache record
\* is written.
C21_ConfigFailureAborts ==
  (dpc # "idle" /\ ConfigInvalid) =>
    /\ dpc = "aborted"
    /\ remoteCalls = 0
    /\ outFiles = startOut
    /\ progressFile.recs = startRecs

\* C23: for any configured grid size the sprite sheet of a batch holds a
\* position for every item of the batch that needs work, and after a complete
\* answer every such item has a description.
C23_EveryItemOnSheet ==
  /\ spc \in {"sheet", "described"} => Len(sh_positions) = sh_n
  /\ spc = "described" => sh_described = sh_n

\* C25: given the same answers of the remote service and the same elapsed time
\* the three job runners are at the same step, have issued the same requests
\* and agree on whether a result was obtained.
C25_RunnersAgree ==
  ipc = "runners" =>
    \A u, v \in RunnerUnits :
      /\ tpc[u] = tpc[v]
      /\ submits[u] = submits[v]
      /\ polls[u] = polls[v]
      /\ fetches[u] = fetches[v]
      /\ (outcome[u] = "image") <=> (outcome[v] = "image")

====
